---- MODULE Spec2Model ----
(***************************************************************************)
(* Model of data_app.py: the funding-rounds dashboard script.              *)
(*                                                                         *)
(* The script is one straight-line pass: load the spreadsheet, explode the *)
(* multi-valued columns, then six analyses.  Each of these is one action.  *)
(*                                                                         *)
(* Representation                                                          *)
(*  - a string is a sequence of tokens; a token is "," or " " or a word    *)
(*    holding neither, so that str.split(', ') and str.strip() are         *)
(*    computed on the text and not assumed;                                *)
(*  - a DataFrame whose row order the script depends on (df and the        *)
(*    exploded frames) is a sequence of row records;                       *)
(*  - the result of a groupby that is not sorted afterwards is a set of    *)
(*    rows (one per group key);                                            *)
(*  - the result of sort_values(ascending=False) is a sequence of tie      *)
(*    classes in strictly descending measure: pandas' default sort kind    *)
(*    (quicksort) does not fix the relative order of equal measures, so    *)
(*    head(n) cutting through a tie class may keep any of its members;     *)
(*  - Python names refer to objects: `ref` maps each global name to an     *)
(*    object id and `heap` maps object ids to values, so that an in-place  *)
(*    column assignment is seen through every alias of the object.         *)
(***************************************************************************)
EXTENDS Integers, Sequences, FiniteSets, Bags, TLC

VARIABLES pc, xlsx, heap, ref

vars == <<pc, xlsx, heap, ref>>

-----------------------------------------------------------------------------
(* Strings *)

Comma == ","
Space == " "

\* the delimiter of str.split(', ')
Sep == <<Comma, Space>>

\* an empty spreadsheet cell as pd.read_excel returns it
NaN == <<"<NaN>">>

\* the literals of the script
YCombinator == <<"Y", Space, "Combinator">>
NotMentioned == <<"Not", Space, "Mentioned">>
OtherLabel == <<"Other">>

\* the piece of s that ends before position e (the start of a delimiter,
\* or one past the end of s) and starts after the delimiter before it
SplitPiece(s, e) ==
    LET before == {i \in 1..(e - 2) : s[i] = Sep[1] /\ s[i + 1] = Sep[2]}
        b == IF before = {} THEN 1
             ELSE 2 + CHOOSE i \in before : \A j \in before : j <= i
    IN SubSeq(s, b, e - 1)

\* str.split(', '): the pieces between non-overlapping occurrences of the
\* delimiter, left to right; the empty string gives one empty piece
Split(s) ==
    LET ends == {i \in 1..(Len(s) - 1) : s[i] = Sep[1] /\ s[i + 1] = Sep[2]}
                    \cup {Len(s) + 1}
    IN [k \in 1..Cardinality(ends) |->
           SplitPiece(s, CHOOSE e \in ends : Cardinality({x \in ends : x < e}) = k - 1)]

RECURSIVE LStrip(_)
LStrip(s) == IF s # <<>> /\ s[1] = Space THEN LStrip(Tail(s)) ELSE s

RECURSIVE RStrip(_)
RStrip(s) ==
    IF s # <<>> /\ s[Len(s)] = Space THEN RStrip(SubSeq(s, 1, Len(s) - 1)) ELSE s

\* str.strip()
Strip(s) == RStrip(LStrip(s))

\* Series.fillna('')
FillNa(v) == IF v = NaN THEN <<>> ELSE v

\* Series.replace('Not Mentioned', ''): whole values equal to the marker
ReplaceNotMentioned(v) == IF v = NotMentioned THEN <<>> ELSE v

-----------------------------------------------------------------------------
(* Frames *)

Range(s) == {s[i] : i \in 1..Len(s)}

\* the sequences of ss, one after the other
RECURSIVE Concat(_)
Concat(ss) ==
    IF ss = <<>> THEN <<>>
    ELSE IF Len(ss) = 1 THEN ss[1]
    ELSE LET half == Len(ss) \div 2
         IN Concat(SubSeq(ss, 1, half)) \o Concat(SubSeq(ss, half + 1, Len(ss)))

\* the empty values skipped
ExplodeRowDropEmpty(r, col) ==
    LET kept == SelectSeq(r[col], LAMBDA v : v # <<>>)
    IN [j \in 1..Len(kept) |-> [r EXCEPT ![col] = kept[j]]]

\* one row per element of the row's list in column col, the other columns
\* (and the index label) repeated
ExplodeRow(r, col) == [j \in 1..Len(r[col]) |-> [r EXCEPT ![col] = r[col][j]]]

\* DataFrame.explode(col)
Explode(t, col) == Concat([i \in 1..Len(t) |-> ExplodeRow(t[i], col)])

\* df.assign(col = df[col].str.split(', '))
SplitColumn(t, col) == [i \in 1..Len(t) |-> [t[i] EXCEPT ![col] = Split(@)]]

\* Series.isin(index)
IsIn(v, index) == v \in index

\* the sum of f over S, f a count or an amount (never negative): the size
\* of the bag that holds each x of S f[x] times
SumOver(S, f) == BagCardinality([x \in {y \in S : f[y] > 0} |-> f[x]])

\* groupby(col) keys
GroupKeys(t, col) == {t[i][col] : i \in 1..Len(t)}

GroupRows(t, col, k) == {i \in 1..Len(t) : t[i][col] = k}

\* groupby(col)['organization_name'].count()
GroupCount(t, col) ==
    [k \in GroupKeys(t, col) |-> Cardinality(GroupRows(t, col, k))]

\* groupby(col)['organization_name'].nunique()
GroupNUnique(t, col) ==
    [k \in GroupKeys(t, col) |->
        Cardinality({t[i].organization_name : i \in GroupRows(t, col, k)})]

\* groupby(col)['money_raised_(in_usd)'].sum()
GroupSumMoney(t, col) ==
    [k \in GroupKeys(t, col) |->
        SumOver(GroupRows(t, col, k), [i \in 1..Len(t) |-> t[i].money_raised])]

-----------------------------------------------------------------------------
(* Numbers: pandas divides in float64.  A quotient is kept exactly, as a  *)
(* fraction in lowest terms; a zero denominator is what float division by *)
(* zero gives: 0/0 is NaN (num = 0) and x/0 is infinity (num = 1).        *)

RECURSIVE GCD(_, _)
GCD(a, b) == IF b = 0 THEN a ELSE GCD(b, a % b)

Rat(n, d) ==
    IF d = 0 THEN [num |-> IF n = 0 THEN 0 ELSE 1, den |-> 0]
    ELSE LET g == GCD(n, d) IN [num |-> n \div g, den |-> d \div g]

IsFinite(q) == q.den # 0

RatAdd(a, b) ==
    IF a.den = 0 \/ b.den = 0
    THEN [num |-> IF (a.den = 0 /\ a.num = 0) \/ (b.den = 0 /\ b.num = 0)
                  THEN 0 ELSE 1,
          den |-> 0]
    ELSE Rat(a.num * b.den + b.num * a.den, a.den * b.den)

\* comparisons with NaN are false
RatGeq(a, b) ==
    IF a.den = 0 \/ b.den = 0
    THEN a.den = 0 /\ a.num = 1 /\ ~(b.den = 0 /\ b.num = 0)
    ELSE a.num * b.den >= b.num * a.den

\* the order of a measure column: int64 (counts, sums) or float64 (means)
Geq(dtype, a, b) == IF dtype = "int64" THEN a >= b ELSE RatGeq(a, b)

RECURSIVE RatSumOver(_, _)
RatSumOver(S, f) ==
    IF S = {} THEN Rat(0, 1)
    ELSE LET x == CHOOSE y \in S : TRUE IN RatAdd(f[x], RatSumOver(S \ {x}, f))

-----------------------------------------------------------------------------
(* Sorted results *)

\* sort_values(ascending=False) of a grouped measure val (group key |->
\* measure): the tie classes in strictly descending measure
RankDesc(val, dtype) ==
    LET measures == {val[k] : k \in DOMAIN val}
        \* how many measures come before v
        before == [v \in measures |->
                      Cardinality({w \in measures : w # v /\ Geq(dtype, w, v)})]
    IN [i \in 1..Cardinality(measures) |->
           LET v == CHOOSE w \in measures : before[w] = i - 1
           IN [keys |-> {k \in DOMAIN val : val[k] = v}, value |-> v]]

\* the subsets of T with r members
RECURSIVE Combos(_, _)
Combos(T, r) ==
    IF r = 0 THEN {{}}
    ELSE IF r >= Cardinality(T) THEN {T}
    ELSE LET x == CHOOSE y \in T : TRUE
         IN {S \cup {x} : S \in Combos(T \ {x}, r - 1)} \cup Combos(T \ {x}, r)

\* .index of a sorted result, read only through isin
IndexOf(rank) == UNION {rank[i].keys : i \in 1..Len(rank)}

\* number of rows of a sorted result
RankLen(rank) == Cardinality(IndexOf(rank))

\* number of rows in the first i tie classes
RowsTo(rank, i) == RankLen(SubSeq(rank, 1, i))

\* cutting a sorted result after its first n rows, as head(n) and iloc[n:]
\* of one frame see it: every [head, tail] the sort may have produced
Cuts(rank, n) ==
    IF RankLen(rank) <= n
    THEN {[head |-> rank, tail |-> <<>>]}
    ELSE LET b == CHOOSE i \in 1..Len(rank) :
                      RowsTo(rank, i - 1) <= n /\ n < RowsTo(rank, i)
             r == n - RowsTo(rank, b - 1)
         IN IF r = 0
            THEN {[head |-> SubSeq(rank, 1, b - 1),
                   tail |-> SubSeq(rank, b, Len(rank))]}
            ELSE {[head |-> Append(SubSeq(rank, 1, b - 1),
                                   [keys |-> S, value |-> rank[b].value]),
                   tail |-> <<[keys |-> rank[b].keys \ S, value |-> rank[b].value]>>
                            \o SubSeq(rank, b + 1, Len(rank))] :
                     S \in Combos(rank[b].keys, r)}

\* .head(n)
HeadOf(rank, n) == {cut.head : cut \in Cuts(rank, n)}

\* ['money_raised_(in_usd)'].sum() over the rows of a sorted result
RankSum(rank) ==
    SumOver(1..Len(rank),
            [i \in 1..Len(rank) |-> rank[i].value * Cardinality(rank[i].keys)])

-----------------------------------------------------------------------------
(* Program constants *)

\* .head(10) of analysis 1
DEALS_TOP == 10

TOP_N == 80

TOP_INVESTORS == 5

TOP_INDUSTRIES == 10

EXCLUDED_INVESTORS == {YCombinator}

-----------------------------------------------------------------------------
(* The global names of the script and the objects they refer to *)

Names ==
    {"df", "df_industry", "df_investor", "deals_by_industry",
     "funding_by_industry", "top_industries", "other_industries", "other_row",
     "funding_treemap_df", "df_exp", "top_investors", "df_top_inv", "df_top",
     "inv_ind_deals", "df_money", "inv_ind_money", "df_money_filtered",
     "top_investors_no_yc", "inv_ind_money_no_yc", "df_top_ind",
     "avg_funding_industry"}

Max(S) == CHOOSE x \in S : \A y \in S : x >= y

\* name = value for each <<name, value>> of binds, in order: every value is
\* a new object
HeapAfter(h, binds) == h \o [i \in 1..Len(binds) |-> binds[i][2]]

RefAfter(h, r, binds) ==
    [n \in Names |->
        LET at == {i \in 1..Len(binds) : binds[i][1] = n}
        IN IF at = {} THEN r[n] ELSE Len(h) + Max(at)]

Bound(n) == ref[n] # 0

df == heap[ref["df"]]
df_industry == heap[ref["df_industry"]]
df_investor == heap[ref["df_investor"]]
deals_by_industry == heap[ref["deals_by_industry"]]
funding_by_industry == heap[ref["funding_by_industry"]]
top_industries == heap[ref["top_industries"]]
other_industries == heap[ref["other_industries"]]
other_row == heap[ref["other_row"]]
funding_treemap_df == heap[ref["funding_treemap_df"]]
df_exp == heap[ref["df_exp"]]
top_investors == heap[ref["top_investors"]]
df_top_inv == heap[ref["df_top_inv"]]
df_top == heap[ref["df_top"]]
inv_ind_deals == heap[ref["inv_ind_deals"]]
df_money == heap[ref["df_money"]]
inv_ind_money == heap[ref["inv_ind_money"]]
df_money_filtered == heap[ref["df_money_filtered"]]
top_investors_no_yc == heap[ref["top_investors_no_yc"]]
inv_ind_money_no_yc == heap[ref["inv_ind_money_no_yc"]]
df_top_ind == heap[ref["df_top_ind"]]
avg_funding_industry == heap[ref["avg_funding_industry"]]

-----------------------------------------------------------------------------
(* Load and preprocessing *)

\* load_data: the two text columns with their empty cells filled
LoadData(file) ==
    [i \in 1..Len(file) |->
        [file[i] EXCEPT !.organization_industries = FillNa(@),
                        !.investor_names = FillNa(@)]]

\* the exploded frame with .drop_duplicates('organization_industries')
ExplodeIndustriesDeduplicated(t) ==
    LET all == Explode(SplitColumn(t, "organization_industries"),
                       "organization_industries")
        RECURSIVE First(_)
        First(i) ==
            IF i > Len(all) THEN <<>>
            ELSE (IF \E j \in 1..(i - 1) :
                        all[j].organization_industries = all[i].organization_industries
                  THEN <<>> ELSE <<all[i]>>) \o First(i + 1)
    IN First(1)

ExplodeIndustries(t) ==
    Explode(SplitColumn(t, "organization_industries"), "organization_industries")

ExplodeInvestors(t) ==
    Explode(SplitColumn(t, "investor_names"), "investor_names")

Load ==
    /\ pc = "load"
    /\ heap' = HeapAfter(heap, <<<<"df", LoadData(xlsx)>>>>)
    /\ ref' = RefAfter(heap, ref, <<<<"df", LoadData(xlsx)>>>>)
    /\ pc' = "preprocess"
    /\ UNCHANGED xlsx

Preprocess ==
    /\ pc = "preprocess"
    /\ LET industry == ExplodeIndustries(df)
           investor == ExplodeInvestors(industry)
           binds == <<<<"df_industry", industry>>, <<"df_investor", investor>>>>
       IN /\ heap' = HeapAfter(heap, binds)
          /\ ref' = RefAfter(heap, ref, binds)
    /\ pc' = "task1"
    /\ UNCHANGED xlsx

-----------------------------------------------------------------------------
(* Task 1: number of deals by industry *)

NonEmptyIndustry(t) ==
    SelectSeq(t, LAMBDA r : r.organization_industries # <<>>)

\* the sorted deal counts, before head
DealsRanking(t) ==
    RankDesc(GroupCount(NonEmptyIndustry(t), "organization_industries"), "int64")

Task1 ==
    /\ pc = "task1"
    /\ \E deals \in HeadOf(DealsRanking(df_industry), DEALS_TOP) :
          LET binds == <<<<"deals_by_industry", deals>>>>
          IN /\ heap' = HeapAfter(heap, binds)
             /\ ref' = RefAfter(heap, ref, binds)
    /\ pc' = "task2"
    /\ UNCHANGED xlsx

-----------------------------------------------------------------------------
(* Task 2: money invested by industry *)

FundingByIndustry(t) ==
    RankDesc(GroupSumMoney(t, "organization_industries"), "int64")

\* iloc[TOP_N + 1:]
TreemapCutsSkipOne(funding) ==
    UNION {{[head |-> cut.head, tail |-> rest.tail] : rest \in Cuts(cut.tail, 1)} :
              cut \in Cuts(funding, TOP_N)}

\* funding_by_industry.head(TOP_N) and funding_by_industry.iloc[TOP_N:]
TreemapCuts(funding) == Cuts(funding, TOP_N)

OtherRow(other) == <<[keys |-> {OtherLabel}, value |-> RankSum(other)]>>

\* pd.concat([top_industries, other_row], ignore_index=True)
FundingTreemap(top, row) == top \o row

Task2 ==
    /\ pc = "task2"
    /\ LET funding == FundingByIndustry(df_industry)
       IN \E cut \in TreemapCuts(funding) :
             LET row == OtherRow(cut.tail)
                 binds == <<<<"funding_by_industry", funding>>,
                            <<"top_industries", cut.head>>,
                            <<"other_industries", cut.tail>>,
                            <<"other_row", row>>,
                            <<"funding_treemap_df", FundingTreemap(cut.head, row)>>>>
             IN /\ heap' = HeapAfter(heap, binds)
                /\ ref' = RefAfter(heap, ref, binds)
    /\ pc' = "task3"
    /\ UNCHANGED xlsx

-----------------------------------------------------------------------------
(* Task 3: industry-wise deals by the top 5 investors *)

\* df.assign(organization_industries = ..., investor_names = ...)
SplitBoth(t) ==
    [i \in 1..Len(t) |->
        [t[i] EXCEPT !.organization_industries = Split(@),
                     !.investor_names = Split(ReplaceNotMentioned(FillNa(@)))]]

NonBlankInvestor(r) == Strip(r.investor_names) # <<>>

\* df_exp: both columns exploded, the blank investor names dropped
ExplodeBoth(t) ==
    SelectSeq(Explode(Explode(SplitBoth(t), "organization_industries"),
                      "investor_names"),
              NonBlankInvestor)

\* groupby(col)['organization_name'].nunique().sort_values(ascending=False)
\*   .head(n).index
TopByOrganizations(t, col, n) ==
    {IndexOf(h) : h \in HeadOf(RankDesc(GroupNUnique(t, col), "int64"), n)}

InvestorIn(t, index) == SelectSeq(t, LAMBDA r : IsIn(r.investor_names, index))

IndustryIn(t, index) ==
    SelectSeq(t, LAMBDA r : IsIn(r.organization_industries, index))

PairRows(t, inv, ind) ==
    {i \in 1..Len(t) : t[i].investor_names = inv /\ t[i].organization_industries = ind}

PairKeys(t) ==
    {<<t[i].investor_names, t[i].organization_industries>> : i \in 1..Len(t)}

\* groupby(['investor_names', 'organization_industries']).nunique()
\*   ['organization_name'].reset_index(name='deal_count')
InvIndDeals(t) ==
    {[investor_names |-> k[1], organization_industries |-> k[2],
      deal_count |->
          Cardinality({t[i].organization_name : i \in PairRows(t, k[1], k[2])})] :
        k \in PairKeys(t)}

Task3 ==
    /\ pc = "task3"
    /\ LET exp == ExplodeBoth(df)
       IN \E investors \in TopByOrganizations(exp, "investor_names", TOP_INVESTORS),
             industries \in TopByOrganizations(exp, "organization_industries",
                                               TOP_INDUSTRIES) :
             LET topInv == InvestorIn(exp, investors)
                 top == IndustryIn(topInv, industries)
                 binds == <<<<"df_exp", exp>>,
                            <<"top_investors", investors>>,
                            <<"df_top_inv", topInv>>,
                            <<"top_industries", industries>>,
                            <<"df_top", top>>,
                            <<"inv_ind_deals", InvIndDeals(top)>>>>
             IN /\ heap' = HeapAfter(heap, binds)
                /\ ref' = RefAfter(heap, ref, binds)
    /\ pc' = "task4"
    /\ UNCHANGED xlsx

-----------------------------------------------------------------------------
(* Task 4: money invested by the top 5 investors *)

\* df_money = df_exp
DfExpAlias(src, fresh) == src

\* df_exp.copy(): the object df_money names, given the object copied and
\* the new object holding the copy
DfExpCopy(src, fresh) == fresh

\* no replace
KeepZero(n) == n

\* Series.replace(0, 1)
ReplaceZero(n) == IF n = 0 THEN 1 ELSE n

\* floor division
MoneyPerInvestorFloor(r) ==
    IF ReplaceZero(r.investor_count_computed) = 0
    THEN Rat(r.money_raised, 0)
    ELSE Rat(r.money_raised \div ReplaceZero(r.investor_count_computed), 1)

MoneyPerInvestor(r) == Rat(r.money_raised, ReplaceZero(r.investor_count_computed))

\* frame['money_per_investor'] = ..., on the frame itself
SetMoneyPerInvestor(t) ==
    [i \in 1..Len(t) |-> t[i] @@ [money_per_investor |-> MoneyPerInvestor(t[i])]]

\* groupby(['investor_names', 'organization_industries'])
\*   ['money_per_investor'].sum().reset_index()
InvIndMoney(t) ==
    {[investor_names |-> k[1], organization_industries |-> k[2],
      money_per_investor |->
          RatSumOver(PairRows(t, k[1], k[2]),
                     [i \in 1..Len(t) |-> t[i].money_per_investor])] :
        k \in PairKeys(t)}

\* lines 185-186: the copy, and the new column set on it
Task4Attribute ==
    /\ pc = "task4"
    /\ LET copied == Append(heap, df_exp)
           target == DfExpCopy(ref["df_exp"], Len(copied))
       IN /\ heap' = [copied EXCEPT ![target] = SetMoneyPerInvestor(@)]
          /\ ref' = [ref EXCEPT !["df_money"] = target]
    /\ pc' = "task4_aggregate"
    /\ UNCHANGED xlsx

\* lines 187-194
Task4Aggregate ==
    /\ pc = "task4_aggregate"
    /\ LET money == IndustryIn(InvestorIn(df_money, top_investors), top_industries)
           binds == <<<<"df_money", money>>, <<"inv_ind_money", InvIndMoney(money)>>>>
       IN /\ heap' = HeapAfter(heap, binds)
          /\ ref' = RefAfter(heap, ref, binds)
    /\ pc' = "task5"
    /\ UNCHANGED xlsx

-----------------------------------------------------------------------------
(* Task 5: the same, Y Combinator excluded *)

\* the negation left out
OnlyExcluded(t) ==
    SelectSeq(t, LAMBDA r : IsIn(r.investor_names, EXCLUDED_INVESTORS))

\* df_money[~df_money['investor_names'].isin(EXCLUDED_INVESTORS)]
DropExcluded(t) ==
    SelectSeq(t, LAMBDA r : ~IsIn(r.investor_names, EXCLUDED_INVESTORS))

Task5 ==
    /\ pc = "task5"
    /\ LET kept == DropExcluded(df_money)
       IN \E investors \in TopByOrganizations(kept, "investor_names", TOP_INVESTORS) :
             LET filtered == InvestorIn(kept, investors)
                 binds == <<<<"top_investors_no_yc", investors>>,
                            <<"df_money_filtered", filtered>>,
                            <<"inv_ind_money_no_yc", InvIndMoney(filtered)>>>>
             IN /\ heap' = HeapAfter(heap, binds)
                /\ ref' = RefAfter(heap, ref, binds)
    /\ pc' = "task6"
    /\ UNCHANGED xlsx

-----------------------------------------------------------------------------
(* Task 6: average funding per deal by industry *)

\* groupby(col)['money_raised_(in_usd)'].mean()
GroupMeanMoney(t, col) ==
    [k \in GroupKeys(t, col) |->
        Rat(GroupSumMoney(t, col)[k], GroupCount(t, col)[k])]

AvgFundingIndustry(t) ==
    RankDesc(GroupMeanMoney(t, "organization_industries"), "float64")

Task6 ==
    /\ pc = "task6"
    /\ \E industries \in TopByOrganizations(NonEmptyIndustry(df_industry),
                                            "organization_industries",
                                            TOP_INDUSTRIES) :
          LET topInd == IndustryIn(df_industry, industries)
              binds == <<<<"top_industries", industries>>,
                         <<"df_top_ind", topInd>>,
                         <<"avg_funding_industry", AvgFundingIndustry(topInd)>>>>
          IN /\ heap' = HeapAfter(heap, binds)
             /\ ref' = RefAfter(heap, ref, binds)
    /\ pc' = "done"
    /\ UNCHANGED xlsx

Next ==
    \/ Load
    \/ Preprocess
    \/ Task1
    \/ Task2
    \/ Task3
    \/ Task4Attribute
    \/ Task4Aggregate
    \/ Task5
    \/ Task6

-----------------------------------------------------------------------------
(* Inputs: the sheets the script is run on *)

\* A sheet is a sequence of rows under pandas' default RangeIndex.  No
\* organization name occurs in the script, so the i-th row names one of the
\* first i organizations.
OrganizationNames == <<"A", "B", "C", "D">>

OrganizationChoices(n) == {h \in [1..n -> 1..n] : \A i \in 1..n : h[i] <= i}

\* 1. Text: what the multi-valued cells may hold.  The i-th deal raised 3i
\* and counts i - 1 investors, so that no two rows share their amounts.
MaxRows == 2

IndustryCells ==
    {NaN,
     <<"AI">>,
     <<"AI", Comma, Space, "SaaS">>}

InvestorCells ==
    {NaN,
     YCombinator,
     <<"X", Comma, Space>> \o YCombinator,
     NotMentioned,
     <<"X", Comma, Space>> \o NotMentioned,
     <<"X", Comma, Space, Space>>}

TextCells ==
    [organization_industries : IndustryCells, investor_names : InvestorCells]

TextSheets(n) ==
    {[i \in 1..n |->
         [idx |-> i - 1,
          organization_name |-> OrganizationNames[g[i]],
          organization_industries |-> f[i].organization_industries,
          investor_names |-> f[i].investor_names,
          money_raised |-> 3 * i,
          investor_count_computed |-> i - 1]] :
        f \in [1..n -> TextCells], g \in OrganizationChoices(n)}

Init ==
    /\ pc = "load"
    /\ xlsx \in UNION {TextSheets(n) : n \in 1..MaxRows}
    /\ heap = <<>>
    /\ ref = [n \in Names |-> 0]

Spec == Init /\ [][Next]_vars

\* 2. Amounts: what the numeric cells may hold
MaxDeals == 1

MaxMoney == 2

MaxCount == 2

AmountCells ==
    [organization_industries : {<<"AI">>, <<"AI", Comma, Space, "SaaS">>},
     investor_names : {<<"X">>,
                       <<"X", Comma, Space>> \o YCombinator,
                       <<"X", Comma, Space, Space>>},
     money_raised : 0..MaxMoney,
     investor_count_computed : 0..MaxCount]

AmountSheets(n) ==
    {[i \in 1..n |->
         [idx |-> i - 1,
          organization_name |-> OrganizationNames[g[i]],
          organization_industries |-> f[i].organization_industries,
          investor_names |-> f[i].investor_names,
          money_raised |-> f[i].money_raised,
          investor_count_computed |-> f[i].investor_count_computed]] :
        f \in [1..n -> AmountCells], g \in OrganizationChoices(n)}

InitAmounts ==
    /\ pc = "load"
    /\ xlsx \in UNION {AmountSheets(n) : n \in 1..MaxDeals}
    /\ heap = <<>>
    /\ ref = [n \in Names |-> 0]

SpecAmounts == InitAmounts /\ [][Next]_vars

\* 3. Width: more industries and investors than the top-N cuts keep
WideMargin == 2

RECURSIVE Join(_)
Join(ss) ==
    IF Len(ss) = 1 THEN ss[1] ELSE ss[1] \o Sep \o Join(Tail(ss))

IndustryName(i) == <<"I" \o ToString(i)>>

WideInvestors ==
    <<YCombinator, <<"V1">>, <<"V2">>, <<"V3">>, <<"V4">>, <<"V5">>, <<"V6">>>>

\* n deals of one industry and one investor each, the amounts repeating in
\* runs of `run`, and two deals listing the first few industries
WideSheet(n, shift, run) ==
    [i \in 1..n |->
        [idx |-> i - 1,
         organization_name |-> "O" \o ToString(i),
         organization_industries |-> IndustryName(i),
         investor_names |-> WideInvestors[1 + ((i + shift) % Len(WideInvestors))],
         money_raised |-> (i + run - 1) \div run,
         investor_count_computed |-> 1]]
    \o
    <<[idx |-> n,
       organization_name |-> "M1",
       organization_industries |->
           Join([i \in 1..(TOP_INDUSTRIES - 2) |-> IndustryName(i)]),
       investor_names |-> WideInvestors[1 + (shift % Len(WideInvestors))],
       money_raised |-> 1,
       investor_count_computed |-> 1],
      [idx |-> n + 1,
       organization_name |-> "M2",
       organization_industries |->
           Join([i \in 1..(TOP_INDUSTRIES + (shift % 2)) |-> IndustryName(i)]),
       investor_names |-> WideInvestors[1 + ((shift + 1) % Len(WideInvestors))],
       money_raised |-> 2,
       investor_count_computed |-> 1]>>

InitWide ==
    /\ pc = "load"
    /\ xlsx \in {WideSheet(n, shift, run) :
                    n \in (TOP_N - WideMargin)..(TOP_N + WideMargin),
                    shift \in 0..2,
                    run \in {1, 3}}
    /\ heap = <<>>
    /\ ref = [n \in Names |-> 0]

SpecWide == InitWide /\ [][Next]_vars

-----------------------------------------------------------------------------
(* Properties *)

Steps ==
    <<"load", "preprocess", "task1", "task2", "task3", "task4",
      "task4_aggregate", "task5", "task6", "done">>

StepNo(p) == CHOOSE i \in 1..Len(Steps) : Steps[i] = p

\* the step the script takes at p has been taken
After(p) == StepNo(pc) > StepNo(p)

Min(a, b) == IF a <= b THEN a ELSE b

IndustryKeys == GroupKeys(df_industry, "organization_industries")

\* the rows of frame t that come from the sheet's row i
RowsOf(t, i) == SelectSeq(t, LAMBDA r : r.idx = i - 1)

\* the names listed in a cell of the sheet
Listed(cell) == Split(FillNa(cell))

(* C1: the treemap frame is the first TOP_N rows of the industry ranking by *)
(* summed money (all of them when there are no more than TOP_N, 'Other'     *)
(* then carrying 0) followed by one 'Other' row, and the money of those     *)
(* rows plus the 'Other' value is the money summed over all industry groups *)
C1_TreemapNoLeakage ==
    After("task2") =>
        LET n == Len(funding_treemap_df)
            top == SubSeq(funding_treemap_df, 1, n - 1)
            other == funding_treemap_df[n]
            sums == GroupSumMoney(df_industry, "organization_industries")
        IN /\ other.keys = {OtherLabel}
           /\ IndexOf(top) \subseteq IndustryKeys
           /\ RankLen(top) = Min(TOP_N, Cardinality(IndustryKeys))
           /\ \A a \in IndexOf(top), b \in IndustryKeys \ IndexOf(top) :
                 sums[a] >= sums[b]
           /\ RankSum(top) + other.value = SumOver(IndustryKeys, sums)
           /\ (Cardinality(IndustryKeys) <= TOP_N => other.value = 0)

C1_Witness ==
    /\ After("task2")
    /\ Cardinality(IndustryKeys) > TOP_N
    /\ funding_treemap_df[Len(funding_treemap_df)].value > 0

(* C2: a row of the expanded frame that comes from a deal with money M and *)
(* investor_count_computed N > 0 carries money_per_investor = M/N; when    *)
(* the deal lists N investors, none blank, the shares of its rows within   *)
(* an industry it lists once add up to M                                   *)
C2_SharesReconstituteMoney ==
    pc = "task4_aggregate" =>
        \A i \in 1..Len(xlsx) :
            LET M == xlsx[i].money_raised
                N == xlsx[i].investor_count_computed
                rows == RowsOf(df_money, i)
                investors == Listed(xlsx[i].investor_names)
                industries == Listed(xlsx[i].organization_industries)
            IN N > 0 =>
                 /\ \A j \in 1..Len(rows) :
                       /\ rows[j].money_per_investor.num * N
                              = M * rows[j].money_per_investor.den
                       /\ rows[j].money_per_investor.den > 0
                 /\ (/\ Len(investors) = N
                     /\ \A j \in 1..N :
                           /\ Strip(investors[j]) # <<>>
                           /\ investors[j] # NotMentioned)
                    => \A x \in Range(industries) :
                          Cardinality({j \in 1..Len(industries) : industries[j] = x}) = 1
                          => LET of == {j \in 1..Len(rows) :
                                           rows[j].organization_industries = x}
                             IN /\ Cardinality(of) = N
                                /\ RatSumOver(of, [j \in 1..Len(rows) |->
                                                      rows[j].money_per_investor])
                                      = [num |-> M, den |-> 1]

C2_Witness ==
    /\ pc = "task4_aggregate"
    /\ \E i \in 1..Len(xlsx) :
          /\ xlsx[i].money_raised = 1
          /\ xlsx[i].investor_count_computed = 2
          /\ Len(Listed(xlsx[i].investor_names)) = 2
          /\ Len(RowsOf(df_money, i)) >= 2

(* C3: a row whose investor_count_computed is 0 gets its full money as      *)
(* money_per_investor, a row with another count N gets M/N, and no share,   *)
(* per row or summed per investor and industry, is infinite or NaN          *)
C3_ZeroGuard ==
    /\ After("task4") =>
          \A j \in 1..Len(df_money) :
             LET r == df_money[j]
             IN /\ IsFinite(r.money_per_investor)
                /\ r.investor_count_computed = 0
                      => r.money_per_investor = [num |-> r.money_raised, den |-> 1]
                /\ r.investor_count_computed # 0
                      => r.money_per_investor.num * r.investor_count_computed
                            = r.money_raised * r.money_per_investor.den
    /\ After("task4_aggregate") =>
          \A g \in inv_ind_money : IsFinite(g.money_per_investor)
    /\ After("task5") =>
          \A g \in inv_ind_money_no_yc : IsFinite(g.money_per_investor)

C3_Witness ==
    /\ pc = "task4_aggregate"
    /\ \E j \in 1..Len(df_money) :
          /\ df_money[j].investor_count_computed = 0
          /\ df_money[j].money_raised > 0

(* C4: 'Y Combinator' is not in top_investors_no_yc and is the investor of *)
(* no row of inv_ind_money_no_yc                                           *)
C4_ExcludedInvestorAbsent ==
    After("task5") =>
        /\ YCombinator \notin top_investors_no_yc
        /\ \A g \in inv_ind_money_no_yc : g.investor_names # YCombinator

\* Y Combinator led (or tied for the lead of) analysis 3, and analysis 5
\* still shows someone
C4_Witness ==
    /\ After("task5")
    /\ YCombinator \in top_investors
    /\ LET orgs == GroupNUnique(df_exp, "investor_names")
       IN \A v \in DOMAIN orgs : orgs[YCombinator] >= orgs[v]
    /\ inv_ind_money_no_yc # {}

(* C5: the investors of analysis 5 are the TOP_INVESTORS investors with the *)
(* most distinct organizations among all non-blank investors other than     *)
(* 'Y Combinator'                                                           *)
C5_RecomputedTopFive ==
    After("task5") =>
        top_investors_no_yc
            \in TopByOrganizations(DropExcluded(df_exp), "investor_names",
                                   TOP_INVESTORS)

(* C6, as stated: the distinct-organization counts of the non-empty         *)
(* industries of df_industry add up to at least the number of distinct      *)
(* organizations of df                                                      *)
NonEmptyIndustryOrganizations ==
    LET orgs == GroupNUnique(df_industry, "organization_industries")
    IN SumOver(IndustryKeys \ {<<>>}, orgs)

C6_AsStated ==
    After("preprocess") =>
        NonEmptyIndustryOrganizations
            >= Cardinality({df[i].organization_name : i \in 1..Len(df)})

(* C6, amended: ... at least the number of distinct organizations of df    *)
(* that list a non-empty industry in some row                              *)
C6_ExplodeKeepsOrganizations ==
    After("preprocess") =>
        NonEmptyIndustryOrganizations
            >= Cardinality({df[i].organization_name :
                               i \in {j \in 1..Len(df) :
                                         \E x \in Range(Listed(xlsx[j].organization_industries)) :
                                            x # <<>>}})

C6_Witness ==
    /\ After("preprocess")
    /\ \E i \in 1..Len(df) : df[i].organization_industries = <<>>
    /\ \E i \in 1..Len(df) : Len(RowsOf(df_industry, i)) = 2

(* C7: the empty industry is in none of the top-10 industry selections: of *)
(* analysis 1, of analyses 3 to 5, of analysis 6                           *)
C7_EmptyIndustryNeverTop ==
    /\ After("task1") => <<>> \notin IndexOf(deals_by_industry)
    /\ (After("task3") /\ ~After("task6")) => <<>> \notin top_industries
    /\ After("task6") => <<>> \notin top_industries

(* C8: a row of the sheet whose industries cell holds k values and whose    *)
(* investors cell holds m has k rows in df_industry, one per value in       *)
(* order (joined by ', ' they give the cell back; one row with '' for an    *)
(* empty cell), and k*m rows in df_investor, one per pair; all of them      *)
(* carry its organization, money and investor count; no other rows exist    *)
C8_Expansion ==
    After("preprocess") =>
        /\ \A i \in 1..Len(xlsx) :
              LET industries == Listed(xlsx[i].organization_industries)
                  investors == Listed(xlsx[i].investor_names)
                  k == Len(industries)
                  m == Len(investors)
                  byIndustry == RowsOf(df_industry, i)
                  byInvestor == RowsOf(df_investor, i)
                  Carried(r) ==
                      /\ r.organization_name = xlsx[i].organization_name
                      /\ r.money_raised = xlsx[i].money_raised
                      /\ r.investor_count_computed = xlsx[i].investor_count_computed
              IN /\ Len(byIndustry) = k
                 /\ Join([j \in 1..k |-> byIndustry[j].organization_industries])
                       = FillNa(xlsx[i].organization_industries)
                 /\ \A j \in 1..k :
                       /\ byIndustry[j].organization_industries = industries[j]
                       /\ \A l \in 1..(Len(industries[j]) - 1) :
                             SubSeq(industries[j], l, l + 1) # Sep
                       /\ byIndustry[j].investor_names = FillNa(xlsx[i].investor_names)
                       /\ Carried(byIndustry[j])
                 /\ (FillNa(xlsx[i].organization_industries) = <<>>
                        => k = 1 /\ byIndustry[1].organization_industries = <<>>)
                 /\ Len(byInvestor) = k * m
                 /\ \A j \in 1..k, l \in 1..m :
                       LET r == byInvestor[(j - 1) * m + l]
                       IN /\ r.organization_industries = industries[j]
                          /\ r.investor_names = investors[l]
                          /\ Carried(r)
        /\ \A j \in 1..Len(df_industry) : df_industry[j].idx \in 0..(Len(xlsx) - 1)
        /\ \A j \in 1..Len(df_investor) : df_investor[j].idx \in 0..(Len(xlsx) - 1)

C8_Witness ==
    /\ After("preprocess")
    /\ \E i \in 1..Len(xlsx) :
          /\ Len(RowsOf(df_industry, i)) = 2
          /\ Len(RowsOf(df_investor, i)) = 4
    /\ \E i \in 1..Len(xlsx) :
          /\ xlsx[i].organization_industries = NaN
          /\ Len(RowsOf(df_industry, i)) = 1

(* C9: no investor name that is empty, whitespace only or 'Not Mentioned'   *)
(* is ranked for the top 5 or is a group key of inv_ind_deals,              *)
(* inv_ind_money or inv_ind_money_no_yc                                     *)
BlankName(v) == Strip(v) = <<>> \/ v = NotMentioned

C9_NoBlankInvestor ==
    /\ After("task3") =>
          /\ \A j \in 1..Len(df_exp) : ~BlankName(df_exp[j].investor_names)
          /\ \A v \in top_investors : ~BlankName(v)
          /\ \A g \in inv_ind_deals : ~BlankName(g.investor_names)
    /\ After("task4_aggregate") =>
          \A g \in inv_ind_money : ~BlankName(g.investor_names)
    /\ After("task5") =>
          \A g \in inv_ind_money_no_yc : ~BlankName(g.investor_names)

(* C10: once df, df_industry and df_exp are made, no step rebinds them or  *)
(* changes a row or a column of them; the column of analysis 4 is on       *)
(* df_money alone                                                          *)
Untouched(n) ==
    /\ ref'[n] = ref[n]
    /\ heap'[ref[n]] = heap[ref[n]]

C10_Step ==
    /\ After("load") => Untouched("df")
    /\ After("preprocess") => Untouched("df_industry")
    /\ After("task3") => Untouched("df_exp")
    /\ pc = "task4" =>
          /\ \A j \in 1..Len(heap'[ref'["df_money"]]) :
                "money_per_investor" \in DOMAIN heap'[ref'["df_money"]][j]
          /\ \A j \in 1..Len(heap'[ref'["df_exp"]]) :
                "money_per_investor" \notin DOMAIN heap'[ref'["df_exp"]][j]

C10_NoForeignMutation == [][C10_Step]_vars

C10_Witness ==
    /\ pc = "done"
    /\ df_exp # <<>>
    /\ df_money # <<>>
    /\ "money_per_investor" \in DOMAIN df_money[1]
    /\ "money_per_investor" \notin DOMAIN df_exp[1]

====
